---- MODULE Spec2Model ----
(***************************************************************************)
(* A model of the ledger of wjt179395157/E5: storage.py (Storage: a JSON   *)
(* file holding the transaction list and the running balance), models.py   *)
(* (Transaction, TransactionType) and the mutating half of app.py          *)
(* (AccountingApp.add_transaction / delete_transaction).                   *)
(*                                                                         *)
(* Several AccountingApp instances share one data file.  Every instance    *)
(* keeps its own copy of the file's content (Storage.data), read once by   *)
(* the constructor, and writes the whole copy back after each mutation.    *)
(* A write of the file can fail: open() raises and the file is untouched,  *)
(* or json.dump raises after open() has truncated it.                      *)
(*                                                                         *)
(* Amounts and the balance are Python floats.  They are modelled as        *)
(* binary floating point numbers with a significand of Precision bits and  *)
(* round-to-nearest-even (IEEE-754 binary64 has 53 bits): a value is an    *)
(* integer number of units, and the result of + and - is rounded to the    *)
(* nearest representable value.                                            *)
(*                                                                         *)
(* The reports of app.py (get_summary, get_category_stats,                 *)
(* get_daily_trend) are operators on an instance's data and the time of    *)
(* the call.  The clock is the local wall clock: it advances and it can    *)
(* be set back.  A day of the model is SecsPerDay seconds long.  Shares    *)
(* are in hundredths of a percent.  The queries are also steps of their    *)
(* own (SpecQuery), and the storage layer is also used directly, with      *)
(* ids chosen by the caller (SpecStorage).                                 *)
(***************************************************************************)
EXTENDS Integers, Sequences, FiniteSets, TLC

\* file:   the JSON data file: absent, holding a ledger state, or not JSON
\* loaded: whether the instance has been constructed
\* data:   Storage.data of each instance: the dicts of the transactions, in
\*         insertion order, and the balance
\* nextId: the next value of uuid.uuid4(), taken as never repeating
\* now:    datetime.now(), in clock ticks
\* last, seq: history (see below)
VARIABLES file, loaded, data, nextId, now, last, seq, column

vars == <<file, loaded, data, nextId, now, last, seq, column>>

----------------------------------------------------------------------------
(* Bounds of the model *)

\* bits of the significand of a float
Precision == 3
\* number of uuids that can be drawn (number of successful validations)
MaxId == 2
\* last clock tick
MaxTime == 6
\* largest number of categories of a breakdown whose shares are examined
MaxCategories == 24
\* clock ticks per second (datetime.now() is finer than the stored second)
TicksPerSec == 2
\* seconds per day (a day of the model is SecsPerDay seconds long)
SecsPerDay == 2

Instances == {"app1", "app2"}

----------------------------------------------------------------------------
(* float arithmetic *)

RECURSIVE Pow2(_)
Pow2(n) == IF n = 0 THEN 1 ELSE 2 * Pow2(n - 1)

\* the spacing of the representable values around magnitude m
RECURSIVE UlpFrom(_, _)
UlpFrom(m, s) == IF m < Pow2(Precision) * s THEN s ELSE UlpFrom(m, 2 * s)

Ulp(m) == UlpFrom(m, 1)

\* round a magnitude to the nearest representable one, ties to even
RoundMag(m) ==
    LET s == Ulp(m)
        q == m \div s
        r == m % s
    IN  IF 2 * r < s THEN q * s
        ELSE IF 2 * r > s THEN (q + 1) * s
        ELSE IF q % 2 = 0 THEN q * s ELSE (q + 1) * s

Round(x) == IF x < 0 THEN -RoundMag(-x) ELSE RoundMag(x)

\* float + and -
FAdd(x, y) == Round(x + y)
FSub(x, y) == Round(x - y)

----------------------------------------------------------------------------
(* models.py *)

INCOME == [name |-> "INCOME", value |-> "shouru"]
EXPENSE == [name |-> "EXPENSE", value |-> "zhichu"]
TransactionType == {INCOME, EXPENSE}

\* TransactionType[name]
TransactionTypeByName(n) == CHOOSE m \in TransactionType : m.name = n

\* (a Transaction whose id is its creation time)
Transaction_dateid(id, amount, type, category, date, note) ==
    [id |-> date, amount |-> amount, type |-> type, category |-> category,
     date |-> date, note |-> note]

Transaction(id, amount, type, category, date, note) ==
    [id |-> id, amount |-> amount, type |-> type, category |-> category,
     date |-> date, note |-> note]

\* (a from_dict that forgets the note)
from_dict_nonote(r) ==
    Transaction(r.id, r.amount, TransactionTypeByName(r.type), r.category,
                r.date, "")

to_dict(t) ==
    [id |-> t.id, amount |-> t.amount, type |-> t.type.name,
     category |-> t.category, date |-> t.date, note |-> t.note]

from_dict(r) ==
    Transaction(r.id, r.amount, TransactionTypeByName(r.type), r.category,
                r.date, r.note)

----------------------------------------------------------------------------
(* storage.py *)

EmptyData == [transactions |-> <<>>, balance |-> 0]

NoFile == [status |-> "absent", transactions |-> <<>>, balance |-> 0]

\* Storage._load: the file's content, or the defaults when there is no file
Storage_load(f) ==
    IF f.status = "ok"
    THEN [transactions |-> f.transactions, balance |-> f.balance]
    ELSE EmptyData

\* what can happen in Storage._save: the dump completes, open() raises and
\* the file is untouched, or the dump raises after open() truncated the file
SaveOutcomes == {"ok", "open_raises", "dump_raises"}

\* (a save that writes the transactions and leaves the stored balance)
Storage_save_stale(f, d, outcome) ==
    CASE outcome = "ok" ->
            [status |-> "ok", transactions |-> d.transactions,
             balance |-> f.balance]
      [] outcome = "open_raises" -> f
      [] outcome = "dump_raises" ->
            [status |-> "corrupt", transactions |-> <<>>, balance |-> 0]

\* (a save that keeps the stored transactions the instance does not hold)
Storage_save_merge(f, d, outcome) ==
    CASE outcome = "ok" ->
            [status |-> "ok",
             transactions |->
                SelectSeq(f.transactions,
                          LAMBDA r : \A k \in 1..Len(d.transactions) :
                                        d.transactions[k].id # r.id)
                \o d.transactions,
             balance |-> d.balance]
      [] outcome = "open_raises" -> f
      [] outcome = "dump_raises" ->
            [status |-> "corrupt", transactions |-> <<>>, balance |-> 0]

Storage_save(f, d, outcome) ==
    CASE outcome = "ok" ->
            [status |-> "ok", transactions |-> d.transactions,
             balance |-> d.balance]
      [] outcome = "open_raises" -> f
      [] outcome = "dump_raises" ->
            [status |-> "corrupt", transactions |-> <<>>, balance |-> 0]

\* (an add that puts the transaction in front)
Storage_add_transaction_front(d, t) ==
    [transactions |-> <<to_dict(t)>> \o d.transactions,
     balance |-> IF t.type = INCOME
                 THEN FAdd(d.balance, t.amount)
                 ELSE FSub(d.balance, t.amount)]

\* Storage.add_transaction, up to the call of _save
Storage_add_transaction(d, t) ==
    [transactions |-> Append(d.transactions, to_dict(t)),
     balance |-> IF t.type = INCOME
                 THEN FAdd(d.balance, t.amount)
                 ELSE FSub(d.balance, t.amount)]

\* Storage.get_all_transactions
RECURSIVE MapFromDict(_)
MapFromDict(s) ==
    IF s = <<>> THEN <<>> ELSE <<from_dict(Head(s))>> \o MapFromDict(Tail(s))

get_all_transactions(d) == MapFromDict(d.transactions)

\* Storage.get_balance
get_balance(d) == d.balance

\* (a loop that, finding no match, is left with its last index)
FindIndex_last(txs, id) ==
    IF \E k \in 1..Len(txs) : txs[k].id = id
    THEN CHOOSE k \in 1..Len(txs) :
            /\ txs[k].id = id
            /\ \A j \in 1..(k - 1) : txs[j].id # id
    ELSE Len(txs)

\* the loop of Storage.delete_transaction: the first index holding the id,
\* 0 when the loop ends without a match
FindIndex(txs, id) ==
    IF \E k \in 1..Len(txs) : txs[k].id = id
    THEN CHOOSE k \in 1..Len(txs) :
            /\ txs[k].id = id
            /\ \A j \in 1..(k - 1) : txs[j].id # id
    ELSE 0

\* (a del of the element after the one found, the last one when there is none)
RemoveAt_next(txs, k) ==
    [j \in 1..(Len(txs) - 1) |-> IF j < k + 1 THEN txs[j] ELSE txs[j + 1]]

\* del self.data['transactions'][i]
RemoveAt(txs, k) ==
    [j \in 1..(Len(txs) - 1) |-> IF j < k THEN txs[j] ELSE txs[j + 1]]

\* Storage.delete_transaction, up to the call of _save
Storage_delete_transaction(d, id) ==
    LET k == FindIndex(d.transactions, id)
    IN  IF k = 0
        THEN [found |-> FALSE, data |-> d]
        ELSE LET trans == from_dict(d.transactions[k])
             IN  [found |-> TRUE,
                  data |-> [transactions |-> RemoveAt(d.transactions, k),
                            balance |-> IF trans.type = INCOME
                                        THEN FSub(d.balance, trans.amount)
                                        ELSE FAdd(d.balance, trans.amount)]]

----------------------------------------------------------------------------
(* app.py *)

\* (a guard that lets the amount 0 through)
ValidAmount_zero(amount) == ~(amount < 0)

\* the guard of AccountingApp.add_transaction
ValidAmount(amount) == ~(amount <= 0)

\* datetime.now().strftime("%Y-%m-%d %H:%M:%S"): the clock cut to the second
FormatTime(t) == t \div TicksPerSec

\* timedelta(days=1), in clock ticks
TicksPerDay == SecsPerDay * TicksPerSec

\* pd.to_datetime of a stored "%Y-%m-%d %H:%M:%S" string: a datetime again
ParseTime(sec) == sec * TicksPerSec

\* Series.dt.date: the calendar day of a datetime
DateOf(t) == t \div TicksPerDay

\* one row of the DataFrame built by get_transactions_df
Row(t) ==
    [date |-> ParseTime(t.date), type |-> t.type.value,
     category |-> t.category, amount |-> t.amount, note |-> t.note,
     id |-> t.id]

\* the place of a row in a frame sorted by date, latest first; rows of equal
\* date keep the order of the list
InsertByDate(rows, r) ==
    LET before == SelectSeq(rows, LAMBDA x : x.date >= r.date)
        after  == SelectSeq(rows, LAMBDA x : x.date < r.date)
    IN  before \o <<r>> \o after

RECURSIVE SortByDateFrom(_, _, _)
SortByDateFrom(rows, k, acc) ==
    IF k > Len(rows) THEN acc
    ELSE SortByDateFrom(rows, k + 1, InsertByDate(acc, rows[k]))

\* AccountingApp.get_transactions_df: one row per transaction,
\* sort_values("date", ascending=False)
get_transactions_df(d) ==
    LET transactions == get_all_transactions(d)
    IN  IF transactions = <<>> THEN <<>>
        ELSE SortByDateFrom([k \in 1..Len(transactions) |->
                                Row(transactions[k])], 1, <<>>)

\* df[df["date"] >= start_date], start_date = datetime.now() - timedelta(days)
Period(df, t, days) ==
    LET start_date == t - days * TicksPerDay
    IN  SelectSeq(df, LAMBDA r : r.date >= start_date)

\* df[df["type"] == label]
OfType(df, label) == SelectSeq(df, LAMBDA r : r.type = label)

RECURSIVE SeriesSumFrom(_, _, _)
SeriesSumFrom(rows, k, acc) ==
    IF k > Len(rows) THEN acc
    ELSE SeriesSumFrom(rows, k + 1, FAdd(acc, rows[k].amount))

\* Series.sum() of the amount column: float additions down the column
SeriesSum(rows) == SeriesSumFrom(rows, 1, 0)

ZeroSummary ==
    [total_income |-> 0, total_expense |-> 0, balance |-> 0, count |-> 0]

\* (a summary whose balance is the balance of the whole ledger)
get_summary_ledger(d, t, days) ==
    LET df == get_transactions_df(d)
        df_period == Period(df, t, days)
    IN  IF df = <<>> THEN ZeroSummary
        ELSE [total_income  |-> SeriesSum(OfType(df_period, INCOME.value)),
              total_expense |-> SeriesSum(OfType(df_period, EXPENSE.value)),
              balance       |-> get_balance(d),
              count         |-> Len(df_period)]

\* AccountingApp.get_summary(days), called at time t
get_summary(d, t, days) ==
    LET df == get_transactions_df(d)
        df_period == Period(df, t, days)
        income  == SeriesSum(OfType(df_period, INCOME.value))
        expense == SeriesSum(OfType(df_period, EXPENSE.value))
    IN  IF df = <<>> THEN ZeroSummary
        ELSE [total_income  |-> income,
              total_expense |-> expense,
              balance       |-> FSub(income, expense),
              count         |-> Len(df_period)]

\* groupby(...).sum(): the group's amounts added with Kahan's compensated
\* summation, every operation a float operation
RECURSIVE GroupSumFrom(_, _, _, _)
GroupSumFrom(rows, k, sumx, compensation) ==
    IF k > Len(rows) THEN sumx
    ELSE LET y == FSub(rows[k].amount, compensation)
             t == FAdd(sumx, y)
         IN  GroupSumFrom(rows, k + 1, t, FSub(FSub(t, sumx), y))

GroupSum(rows) == GroupSumFrom(rows, 1, 0, 0)

\* the categories in the order groupby("category") lists its groups
CategoryOrder == <<"food", "transport">>

\* (a rounding that cuts the digits after the second decimal)
RoundHalfEven_floor(num, den) == num \div den

\* num / den rounded to the nearest integer, a tie to the even one
RoundHalfEven(num, den) ==
    LET q == num \div den
        r == num % den
    IN  IF 2 * r > den \/ (2 * r = den /\ q % 2 = 1) THEN q + 1 ELSE q

\* (amount / total * 100).round(2) in hundredths of a percent; the rounding
\* error of the quotient itself (2^-53 of its value) is far below a
\* hundredth and is left out
Share(amount, total) == RoundHalfEven(amount * 10000, total)

\* the share column of a breakdown whose amount column sums to total
SharePercents(stats, total) ==
    [k \in 1..Len(stats) |-> Share(stats[k].amount, total)]

\* (an order by amount, smallest first)
InsertByAmount_asc(entries, e) ==
    LET before == SelectSeq(entries, LAMBDA x : x.amount <= e.amount)
        after  == SelectSeq(entries, LAMBDA x : x.amount > e.amount)
    IN  before \o <<e>> \o after

\* the place of an entry in a frame sorted by amount, largest first
InsertByAmount(entries, e) ==
    LET before == SelectSeq(entries, LAMBDA x : x.amount >= e.amount)
        after  == SelectSeq(entries, LAMBDA x : x.amount < e.amount)
    IN  before \o <<e>> \o after

\* groupby("category")[amount].agg(["sum", "count"]) followed by
\* sort_values(amount, ascending=False)
RECURSIVE GroupsFrom(_, _, _)
GroupsFrom(df_filtered, k, acc) ==
    IF k > Len(CategoryOrder) THEN acc
    ELSE LET group == SelectSeq(df_filtered,
                                LAMBDA r : r.category = CategoryOrder[k])
         IN  GroupsFrom(df_filtered, k + 1,
                        IF group = <<>> THEN acc
                        ELSE InsertByAmount(acc,
                                [category |-> CategoryOrder[k],
                                 amount   |-> GroupSum(group),
                                 count    |-> Len(group)]))

\* AccountingApp.get_category_stats(trans_type, days), called at time t
get_category_stats(d, t, trans_type, days) ==
    LET df == get_transactions_df(d)
        df_filtered == OfType(Period(df, t, days), trans_type)
        stats == GroupsFrom(df_filtered, 1, <<>>)
        total == SeriesSum(stats)
    IN  IF df = <<>> \/ df_filtered = <<>> THEN <<>>
        ELSE [k \in 1..Len(stats) |->
                [category |-> stats[k].category,
                 amount   |-> stats[k].amount,
                 count    |-> stats[k].count,
                 share    |-> SharePercents(stats, total)[k]]]

\* one row of the daily trend: the sums of the day's Income and Expense
\* (0 where the day has none) and their difference
TrendRow(df_period, day) ==
    LET ofday == SelectSeq(df_period, LAMBDA r : DateOf(r.date) = day)
        income  == GroupSum(OfType(ofday, INCOME.value))
        expense == GroupSum(OfType(ofday, EXPENSE.value))
    IN  [date |-> day, income |-> income, expense |-> expense,
         net |-> FSub(income, expense)]

RECURSIVE TrendFrom(_, _, _)
TrendFrom(df_period, day, lastDay) ==
    IF day > lastDay THEN <<>>
    ELSE (IF \E k \in 1..Len(df_period) : DateOf(df_period[k].date) = day
          THEN <<TrendRow(df_period, day)>> ELSE <<>>)
         \o TrendFrom(df_period, day + 1, lastDay)

\* (a trend with a row for every day from the start of the window to today)
get_daily_trend_filled(d, t, days) ==
    LET df_period == Period(get_transactions_df(d), t, days)
    IN  [k \in 1..(DateOf(t) - DateOf(t - days * TicksPerDay) + 1) |->
            TrendRow(df_period, DateOf(t - days * TicksPerDay) + k - 1)]

\* AccountingApp.get_daily_trend(days), called at time t: one row per day
\* that has a transaction in the period, earliest day first
get_daily_trend(d, t, days) ==
    LET df == get_transactions_df(d)
        df_period == Period(df, t, days)
    IN  IF df = <<>> THEN <<>>
        ELSE TrendFrom(df_period, 0, DateOf(MaxTime))

\* the queries of AccountingApp
Queries ==
    {"get_balance", "get_all_transactions", "get_transactions_df",
     "get_summary", "get_category_stats", "get_daily_trend"}

\* what a query returns when called at time t
QueryResult(d, t, q, trans_type, days) ==
    CASE q = "get_balance" -> get_balance(d)
      [] q = "get_all_transactions" -> get_all_transactions(d)
      [] q = "get_transactions_df" -> get_transactions_df(d)
      [] q = "get_summary" -> get_summary(d, t, days)
      [] q = "get_category_stats" ->
            get_category_stats(d, t, trans_type, days)
      [] q = "get_daily_trend" -> get_daily_trend(d, t, days)

\* (a query that sorts the stored list itself, latest first)
Query_sorting(d, t, q, trans_type, days) ==
    [data   |-> [d EXCEPT !.transactions =
                    SortByDateFrom(d.transactions, 1, <<>>)],
     result |-> QueryResult(d, t, q, trans_type, days)]

\* a call of a query at time t: what it returns, and Storage.data after it.
\* get_all_transactions builds new Transaction objects and the reports work
\* on DataFrames made of them; none assigns to Storage.data or calls _save
Query(d, t, q, trans_type, days) ==
    [data   |-> d,
     result |-> QueryResult(d, t, q, trans_type, days)]

----------------------------------------------------------------------------
(* the state machine *)

\* History kept for stating the properties.
\* last: the last operation: its name and instance, what it returned or
\* raised, the transaction it returned, the id it added or was given, the
\* number of completed file writes, for an add the data of the instance
\* before it, and (prev) the operation before it when that was a mutation
\* that completed.
\* seq: whether so far every mutation completed and was made by the instance
\* constructed last (cur), and then the transactions appended and not
\* removed by all instances, in order of appending (ideal).
NoPrev == [op |-> "none", inst |-> "none", id |-> 0]

Completed(l) == l.op \in {"add", "delete"} /\ l.ret \in {"ok", "True"}

Short(l) ==
    IF Completed(l) THEN [op |-> l.op, inst |-> l.inst, id |-> l.id]
    ELSE NoPrev

Op(op, inst, ret, pre, tx, id, writes) ==
    [op |-> op, inst |-> inst, ret |-> ret, pre |-> pre, tx |-> tx,
     id |-> id, writes |-> writes, prev |-> Short(last)]

NotSequential == [ok |-> FALSE, cur |-> "none", ideal |-> <<>>]

\* seq after a mutation of instance i that makes ideal become txs
SeqAfter(i, completed, txs) ==
    IF seq.ok /\ seq.cur = i /\ completed
    THEN [seq EXCEPT !.ideal = txs]
    ELSE NotSequential

Init ==
    /\ file = NoFile
    /\ loaded = [i \in Instances |-> FALSE]
    /\ data = [i \in Instances |-> EmptyData]
    /\ nextId = 1
    /\ now = 0
    /\ last = [op |-> "init", inst |-> "none", ret |-> "none",
               pre |-> EmptyData, tx |-> <<>>, id |-> 0, writes |-> 0,
               prev |-> NoPrev]
    /\ seq = [ok |-> TRUE, cur |-> "none", ideal |-> <<>>]
    /\ column = <<>>

\* AccountingApp() / Storage(filename): the constructor reads the file
Construct(i) ==
    /\ ~loaded[i]
    /\ file.status # "corrupt"
    /\ loaded' = [loaded EXCEPT ![i] = TRUE]
    /\ data' = [data EXCEPT ![i] = Storage_load(file)]
    /\ last' = Op("construct", i, "ok", EmptyData, <<>>, 0, 0)
    /\ seq' = IF seq.ok THEN [seq EXCEPT !.cur = i] ELSE seq
    /\ UNCHANGED <<column, file, nextId, now>>

\* the constructor on a file that is not JSON: json.load raises
ConstructFails(i) ==
    /\ ~loaded[i]
    /\ file.status = "corrupt"
    /\ last' = Op("construct", i, "JSONDecodeError", EmptyData, <<>>, 0, 0)
    /\ UNCHANGED <<column, file, loaded, data, nextId, now, seq>>

\* AccountingApp.add_transaction with a rejected amount
AddInvalid(i, amount, type, category, note) ==
    /\ loaded[i]
    /\ ~ValidAmount(amount)
    /\ last' = Op("add", i, "ValueError", EmptyData, <<>>, 0, 0)
    /\ UNCHANGED <<column, file, loaded, data, nextId, now, seq>>

\* AccountingApp.add_transaction with an accepted amount
Add(i, amount, type, category, note, outcome) ==
    /\ loaded[i]
    /\ ValidAmount(amount)
    /\ nextId <= MaxId
    /\ LET t == Transaction(nextId, amount, type, category,
                            FormatTime(now), note)
           d == Storage_add_transaction(data[i], t)
       IN  /\ data' = [data EXCEPT ![i] = d]
           /\ file' = Storage_save(file, d, outcome)
           /\ last' = Op("add", i,
                         IF outcome = "ok" THEN "ok" ELSE "OSError",
                         data[i], <<t>>, t.id,
                         IF outcome = "ok" THEN 1 ELSE 0)
           /\ seq' = SeqAfter(i, outcome = "ok",
                              Append(seq.ideal, to_dict(t)))
    /\ nextId' = nextId + 1
    /\ UNCHANGED <<column, loaded, now>>

\* AccountingApp.delete_transaction of an id that is not found
DeleteAbsent(i, id) ==
    /\ loaded[i]
    /\ ~Storage_delete_transaction(data[i], id).found
    /\ data' = [data EXCEPT ![i] = Storage_delete_transaction(data[i], id).data]
    /\ last' = Op("delete", i, "False", EmptyData, <<>>, id, 0)
    /\ UNCHANGED <<column, file, loaded, nextId, now, seq>>

\* AccountingApp.delete_transaction of an id that is found
Delete(i, id, outcome) ==
    /\ loaded[i]
    /\ Storage_delete_transaction(data[i], id).found
    /\ LET d == Storage_delete_transaction(data[i], id).data
       IN  /\ data' = [data EXCEPT ![i] = d]
           /\ file' = Storage_save(file, d, outcome)
           /\ last' = Op("delete", i,
                         IF outcome = "ok" THEN "True" ELSE "OSError",
                         EmptyData, <<>>, id,
                         IF outcome = "ok" THEN 1 ELSE 0)
           /\ seq' = SeqAfter(i, outcome = "ok",
                              SelectSeq(seq.ideal, LAMBDA r : r.id # id))
    /\ UNCHANGED <<column, loaded, nextId, now>>

\* the wall clock advances (not a step of Spec, whose properties do not
\* depend on the time of the calls)
Tick ==
    /\ now < MaxTime
    /\ now' = now + 1
    /\ last' = Op("tick", "none", "none", EmptyData, <<>>, 0, 0)
    /\ UNCHANGED <<column, file, loaded, data, nextId, seq>>

\* the ids a caller passes to delete_transaction: every uuid that can have
\* been drawn and one that never is
Ids == 1..(MaxId + 1)

\* the calls of add_transaction that callers make (amount, type, category,
\* note); the unit of the amounts is arbitrary
Requests ==
    { <<7, INCOME, "food", "">>,
      <<2, INCOME, "transport", "n">>,
      <<2, EXPENSE, "food", "n">>,
      <<0, INCOME, "food", "">>,
      <<-2, EXPENSE, "transport", "n">> }

Next ==
    \/ \E i \in Instances : Construct(i)
    \/ \E i \in Instances : ConstructFails(i)
    \/ \E i \in Instances, r \in Requests :
            AddInvalid(i, r[1], r[2], r[3], r[4])
    \/ \E i \in Instances, r \in Requests, o \in SaveOutcomes :
            Add(i, r[1], r[2], r[3], r[4], o)
    \/ \E i \in Instances, id \in Ids : DeleteAbsent(i, id)
    \/ \E i \in Instances, id \in Ids, o \in SaveOutcomes : Delete(i, id, o)

\* the ledger: the instances' constructions, adds and deletes at one time of
\* the clock
Spec == Init /\ [][Next]_vars

\* the wall clock is set back: datetime.now() is the local wall-clock time,
\* which the end of daylight saving time or a clock correction moves back
ClockBack ==
    /\ \E t \in 0..(now - 1) : now' = t
    /\ last' = Op("clock", "none", "none", EmptyData, <<>>, 0, 0)
    /\ UNCHANGED <<column, file, loaded, data, nextId, seq>>

\* the instance whose reports are examined
Reporter == "app1"

\* the ledger of one instance whose writes succeed, under a running clock
NextReport ==
    \/ Construct(Reporter)
    \/ \E r \in Requests : Add(Reporter, r[1], r[2], r[3], r[4], "ok")
    \/ \E id \in Ids : Delete(Reporter, id, "ok")
    \/ Tick
    \/ ClockBack

\* a data file written before the application starts, as the test fixture
\* app_with_data writes one: a transaction of its own id, and the balance
app_with_data ==
    [status |-> "ok",
     transactions |-> <<to_dict(Transaction(0, 2, INCOME, "food", 0, ""))>>,
     balance |-> 2]

\* the application starts without a data file or on a file written before
InitReport ==
    /\ file \in {NoFile, app_with_data}
    /\ loaded = [i \in Instances |-> FALSE]
    /\ data = [i \in Instances |-> EmptyData]
    /\ nextId = 1
    /\ now = 0
    /\ last = [op |-> "init", inst |-> "none", ret |-> "none",
               pre |-> EmptyData, tx |-> <<>>, id |-> 0, writes |-> 0,
               prev |-> NoPrev]
    /\ seq = [ok |-> TRUE, cur |-> "none", ideal |-> <<>>]
    /\ column = <<>>

SpecReport == InitReport /\ [][NextReport]_vars

\* the amounts of the categories of a breakdown
GroupAmounts == {1, 2}

\* one more category in the breakdown: its amount enters the amount column,
\* which sort_values keeps largest first
AddCategory(a) ==
    /\ Len(column) < MaxCategories
    /\ column' = InsertByAmount(column, [amount |-> a])
    /\ UNCHANGED <<file, loaded, data, nextId, now, last, seq>>

NextShares == \E a \in GroupAmounts : AddCategory(a)

\* the share column of the breakdowns of up to MaxCategories categories
SpecShares == Init /\ [][NextShares]_vars

\* the arguments of the queries of SpecQuery
QueryDays == {0, 1}

\* instance i calls query q
QueryCall(i, q, trans_type, days) ==
    /\ loaded[i]
    /\ LET r == Query(data[i], now, q, trans_type, days)
       IN  /\ data' = [data EXCEPT ![i] = r.data]
           /\ last' = [Op(q, i, trans_type, EmptyData, <<r.result>>, days, 0)
                          EXCEPT !.prev = NoPrev]
    /\ UNCHANGED <<column, file, loaded, nextId, now, seq>>

NextQuery ==
    \/ Construct(Reporter)
    \/ \E r \in Requests : Add(Reporter, r[1], r[2], r[3], r[4], "ok")
    \/ \E id \in Ids : Delete(Reporter, id, "ok")
    \/ Tick
    \/ \E q \in Queries, ty \in TransactionType, days \in QueryDays :
            QueryCall(Reporter, q, ty.value, days)

\* the ledger of one instance and the queries made of it
SpecQuery == Init /\ [][NextQuery]_vars

\* the ids a caller of the storage layer gives its transactions
DupIds == {1, 2}

\* Storage.add_transaction called with a Transaction the caller built: the
\* storage layer takes the id as it comes and does not look for it in the list
StorageAdd(i, id, amount, type, category, note) ==
    /\ loaded[i]
    /\ ValidAmount(amount)
    /\ Len(data[i].transactions) <= MaxId
    /\ LET t == Transaction(id, amount, type, category, FormatTime(now), note)
           d == Storage_add_transaction(data[i], t)
       IN  /\ data' = [data EXCEPT ![i] = d]
           /\ file' = Storage_save(file, d, "ok")
           /\ last' = Op("add", i, "ok", data[i], <<t>>, t.id, 1)
           /\ seq' = NotSequential
    /\ UNCHANGED <<column, loaded, nextId, now>>

NextStorage ==
    \/ Construct(Reporter)
    \/ \E id \in DupIds, r \in Requests :
            StorageAdd(Reporter, id, r[1], r[2], r[3], r[4])
    \/ \E id \in Ids : DeleteAbsent(Reporter, id)
    \/ \E id \in Ids : Delete(Reporter, id, "ok")

\* the storage layer used directly, with ids of the caller's choice
SpecStorage == Init /\ [][NextStorage]_vars

\* the arguments of the queries
WindowDays == {-1, 0, 1, 2}

----------------------------------------------------------------------------
(* what the properties speak about *)

\* an instance's view: all() and balance()
IdsOf(txs) == {txs[k].id : k \in 1..Len(txs)}

\* the content of the data file as a ledger state
FileData(f) == [transactions |-> f.transactions, balance |-> f.balance]

\* a call of add_transaction, whatever it returns or raises (a call of
\* delete_transaction is a step whose record in last names it)
AddCall(i, amount, type, category, note) ==
    \/ AddInvalid(i, amount, type, category, note)
    \/ \E o \in SaveOutcomes : Add(i, amount, type, category, note, o)

\* the sum of the amounts of the transactions of one kind, exact
RECURSIVE ExactSum(_, _)
ExactSum(txs, kind) ==
    IF txs = <<>> THEN 0
    ELSE (IF Head(txs).type = kind THEN Head(txs).amount ELSE 0)
         + ExactSum(Tail(txs), kind)

\* the same sum in float arithmetic, added in the order of the sequence
RECURSIVE FloatSumFrom(_, _, _)
FloatSumFrom(acc, txs, kind) ==
    IF txs = <<>> THEN acc
    ELSE FloatSumFrom(IF Head(txs).type = kind
                      THEN FAdd(acc, Head(txs).amount) ELSE acc,
                      Tail(txs), kind)

\* the signed amounts accumulated in float arithmetic in sequence order
RECURSIVE FloatFold(_, _)
FloatFold(acc, txs) ==
    IF txs = <<>> THEN acc
    ELSE FloatFold(IF Head(txs).type = "INCOME"
                   THEN FAdd(acc, Head(txs).amount)
                   ELSE FSub(acc, Head(txs).amount), Tail(txs))

\* the readings of "sum of the Income amounts minus sum of the Expense amounts"
SignedSums(txs) ==
    { ExactSum(txs, "INCOME") - ExactSum(txs, "EXPENSE"),
      FSub(FloatSumFrom(0, txs, "INCOME"), FloatSumFrom(0, txs, "EXPENSE")),
      FloatFold(0, txs) }

\* the report data of the examined instance
ReportData == data[Reporter]

\* the rows whose timestamp lies in [t - days, t], both bounds included
Window(df, t, days) ==
    SelectSeq(df, LAMBDA r : t - days * TicksPerDay <= r.date /\ r.date <= t)

\* the sum of the amounts of some rows, exact
RECURSIVE ExactAmounts(_)
ExactAmounts(rows) ==
    IF rows = <<>> THEN 0 ELSE Head(rows).amount + ExactAmounts(Tail(rows))

Reverse(q) == [k \in 1..Len(q) |-> q[Len(q) + 1 - k]]

\* the readings of "the sum of the amounts of these rows": exact, or in float
\* arithmetic down or up the column
AmountSums(rows) ==
    { ExactAmounts(rows), SeriesSum(rows), SeriesSum(Reverse(rows)) }

\* the categories a transaction can carry
Categories == {CategoryOrder[k] : k \in 1..Len(CategoryOrder)}

\* the rows of one category
OfCategory(rows, c) == SelectSeq(rows, LAMBDA r : r.category = c)

\* the readings of "the sum of the amounts" of the rows of a group: those of
\* AmountSums and the compensated float sum
EntrySums(rows) == AmountSums(rows) \cup {GroupSum(rows)}

\* q is an amount / total * 100, to 2 decimals (in hundredths of a percent)
IsShare(q, amount, total) ==
    LET diff == q * total - amount * 10000
    IN  2 * (IF diff < 0 THEN -diff ELSE diff) <= total

\* entries is what the claim expects of a breakdown of the rows w
IsBreakdownOf(entries, w) ==
    /\ \A c \in Categories :
          Cardinality({k \in 1..Len(entries) : entries[k].category = c})
             = IF OfCategory(w, c) = <<>> THEN 0 ELSE 1
    /\ \A k \in 1..Len(entries) :
          LET rows == OfCategory(w, entries[k].category)
          IN  /\ entries[k].category \in Categories
              /\ entries[k].count = Len(rows)
              /\ entries[k].amount \in EntrySums(rows)
              /\ \E total \in AmountSums(entries) :
                    IsShare(entries[k].share, entries[k].amount, total)

\* the sum of a column of integers
RECURSIVE SumOf(_)
SumOf(q) == IF q = <<>> THEN 0 ELSE Head(q) + SumOf(Tail(q))

\* the distance of the sum of the shares of the amount column from 100.00
ShareSumOff ==
    LET off == SumOf(SharePercents(column, ExactAmounts(column))) - 10000
    IN  IF off < 0 THEN -off ELSE off

\* the calendar days a transaction of the model can be dated on
Days == 0..DateOf(MaxTime)

\* the rows of one calendar day
OfDay(rows, day) == SelectSeq(rows, LAMBDA r : DateOf(r.date) = day)

\* trend is what the claim expects of a daily trend of the rows w
IsTrendOf(trend, w) ==
    /\ \A day \in Days :
          Cardinality({k \in 1..Len(trend) : trend[k].date = day})
             = IF OfDay(w, day) = <<>> THEN 0 ELSE 1
    /\ \A k \in 1..Len(trend) :
          LET rows == OfDay(w, trend[k].date)
          IN  /\ trend[k].date \in Days
              /\ trend[k].income \in EntrySums(OfType(rows, INCOME.value))
              /\ trend[k].expense \in EntrySums(OfType(rows, EXPENSE.value))
              /\ trend[k].net \in {trend[k].income - trend[k].expense,
                                   FSub(trend[k].income, trend[k].expense)}
    /\ \A k \in 1..(Len(trend) - 1) : trend[k].date < trend[k + 1].date

\* the discrepancies of a ledger state: balance minus the signed sum of its
\* transactions, under each reading of the sum
Discrepancies(d) ==
    << d.balance - (ExactSum(d.transactions, "INCOME")
                    - ExactSum(d.transactions, "EXPENSE")),
       d.balance - FSub(FloatSumFrom(0, d.transactions, "INCOME"),
                        FloatSumFrom(0, d.transactions, "EXPENSE")),
       d.balance - FloatFold(0, d.transactions) >>

----------------------------------------------------------------------------
(* C1..C10 *)

\* C1: after every completed append or remove on an instance, balance()
\* equals the sum of the amounts of the Income transactions present minus
\* the sum of the amounts of the Expense transactions present (whether the
\* sums are taken exactly or in the program's float arithmetic).
C1_BalanceIsSignedSum ==
    \A i \in Instances :
        (loaded[i] /\ last.inst = i /\ Completed(last))
            => get_balance(data[i]) \in SignedSums(data[i].transactions)

\* C2: add_transaction with amount <= 0 raises the validation error and
\* leaves the transactions, the balance and the file unchanged, writing
\* nothing.
C2_NonPositiveRejected ==
    [][\A i \in Instances, r \in Requests :
          (/\ r[1] <= 0
           /\ last'.op = "add" /\ last'.inst = i
           /\ AddCall(i, r[1], r[2], r[3], r[4]))
              => /\ last'.ret = "ValueError"
                 /\ last'.tx = <<>>
                 /\ data' = data
                 /\ file' = file
                 /\ last'.writes = 0]_vars

C2_Witness ==
    /\ last.op = "add"
    /\ last.ret = "ValueError"
    /\ data[last.inst].transactions # <<>>
    /\ file.status = "ok"

\* C3: delete_transaction of an id that is not in the ledger returns False,
\* raises nothing, leaves the transactions, the balance and the file
\* unchanged and writes nothing.
C3_DeleteUnknownId ==
    [][\A i \in Instances, id \in Ids :
          (/\ last'.op = "delete" /\ last'.inst = i /\ last'.id = id
           /\ id \notin IdsOf(data[i].transactions))
              => /\ last'.ret = "False"
                 /\ data' = data
                 /\ file' = file
                 /\ last'.writes = 0]_vars

C3_Witness ==
    /\ last.op = "delete"
    /\ last.ret = "False"
    /\ data[last.inst].transactions # <<>>
    /\ file.status = "ok"

\* C4: delete_transaction of an id that is present returns True (unless the
\* save raises), removes exactly the transaction with that id, leaves the
\* others unchanged and in order, and makes the balance the old balance
\* minus the amount (Income) or plus the amount (Expense).
C4_DeletePresentId ==
    [][\A i \in Instances, id \in Ids :
          (/\ last'.op = "delete" /\ last'.inst = i /\ last'.id = id
           /\ id \in IdsOf(data[i].transactions))
              => LET old == data[i].transactions
                     new == data'[i].transactions
                 IN  /\ last'.ret \in {"True", "OSError"}
                     /\ last'.ret = "True" <=> last'.writes = 1
                     /\ id \notin IdsOf(new)
                     /\ \E k \in 1..Len(old) :
                          /\ old[k].id = id
                          /\ Len(new) = Len(old) - 1
                          /\ \A j \in 1..Len(new) :
                               new[j] = IF j < k THEN old[j] ELSE old[j + 1]
                          /\ data'[i].balance =
                               IF old[k].type = "INCOME"
                               THEN FSub(data[i].balance, old[k].amount)
                               ELSE FAdd(data[i].balance, old[k].amount)]_vars

\* a delete that returned True from a ledger of two, the first one removed
C4_Witness ==
    /\ last.op = "delete"
    /\ last.ret = "True"
    /\ Len(data[last.inst].transactions) = 1
    /\ data[last.inst].transactions[1].id > last.id

\* C5: add_transaction with amount > 0 appends exactly one transaction with
\* the given amount, kind, category and note at the end, leaves the earlier
\* ones in place, makes the balance the old balance plus the amount (Income)
\* or minus the amount (Expense), and returns the created transaction
\* (unless the save raises).
C5_AddAppends ==
    [][\A i \in Instances, r \in Requests :
          (/\ r[1] > 0
           /\ last'.op = "add" /\ last'.inst = i
           /\ AddCall(i, r[1], r[2], r[3], r[4]))
              => LET old == data[i].transactions
                     new == data'[i].transactions
                 IN  /\ last'.ret \in {"ok", "OSError"}
                     /\ last'.ret = "ok" <=> last'.writes = 1
                     /\ Len(new) = Len(old) + 1
                     /\ \A j \in 1..Len(old) : new[j] = old[j]
                     /\ new[Len(new)].amount = r[1]
                     /\ new[Len(new)].type = r[2].name
                     /\ new[Len(new)].category = r[3]
                     /\ new[Len(new)].note = r[4]
                     /\ last'.tx = <<from_dict(new[Len(new)])>>
                     /\ last'.tx[1].type = r[2]
                     /\ data'[i].balance =
                          IF r[2] = INCOME
                          THEN FAdd(data[i].balance, r[1])
                          ELSE FSub(data[i].balance, r[1])]_vars

\* an add that returned its transaction, onto a ledger that had one already
C5_Witness ==
    /\ last.op = "add"
    /\ last.ret = "ok"
    /\ Len(data[last.inst].transactions) = 2
    /\ data[last.inst].transactions[2].id = last.tx[1].id

\* C6: add_transaction followed immediately by delete_transaction of the
\* returned id restores the balance and the transactions of the instance to
\* what they were before the add.
C6_AddThenDeleteRestores ==
    [][\A i \in Instances :
          (/\ last.op = "add"
           /\ last.ret = "ok"
           /\ last.inst = i
           /\ last'.op = "delete" /\ last'.inst = i /\ last'.id = last.id
           /\ last'.ret = "True")
              => /\ data'[i].transactions = last.pre.transactions
                 /\ get_balance(data'[i]) = get_balance(last.pre)]_vars

\* C7: after every add or delete that completed, the file holds the
\* instance's data (same transactions in the same order, same balance) and
\* was written once by the call, and an instance constructed at that point
\* reports the same transactions and balance.
C7_WriteThrough ==
    [][/\ Completed(last')
            => /\ file'.status = "ok"
               /\ FileData(file') = data'[last'.inst]
               /\ last'.writes = 1
       /\ \A i \in Instances :
            (Completed(last) /\ last'.op = "construct" /\ Construct(i))
                => /\ get_all_transactions(data'[i])
                        = get_all_transactions(data[last.inst])
                   /\ get_balance(data'[i]) = get_balance(data[last.inst])
      ]_vars

\* an instance constructed right after another one's completed mutation of a
\* ledger that then holds a transaction
C7_Witness ==
    /\ last.op = "construct"
    /\ last.ret = "ok"
    /\ last.prev.op # "none"
    /\ last.prev.inst # last.inst
    /\ data[last.inst].transactions # <<>>
    /\ data[last.inst] = data[last.prev.inst]

\* C8: when the write of the file fails during an add or a delete, the
\* instance's transactions and balance are afterwards what they were before
\* the call.
C8_FailedWriteNotObserved ==
    [][\A i \in Instances :
          (last'.ret = "OSError" /\ last'.inst = i)
              => /\ get_all_transactions(data'[i])
                      = get_all_transactions(data[i])
                 /\ get_balance(data'[i]) = get_balance(data[i])]_vars

\* C9: when instance i completes a mutation and then instance j, constructed
\* before it, completes one, the file holds j's data afterwards: a
\* transaction i added is not in it, a transaction i deleted that j holds is
\* in it again, and neither call raised.
C9_LastWriterWins ==
    [][\A i, j \in Instances :
          (/\ i # j
           /\ loaded[j]
           /\ Completed(last) /\ last.inst = i
           /\ Completed(last') /\ last'.inst = j)
              => /\ FileData(file') = data'[j]
                 /\ last.op = "add"
                        => /\ last.id \in IdsOf(file.transactions)
                           /\ last.id \notin IdsOf(file'.transactions)
                 /\ (/\ last.op = "delete"
                     /\ last.id \in IdsOf(data[j].transactions)
                     /\ ~(last'.op = "delete" /\ last'.id = last.id))
                        => /\ last.id \notin IdsOf(file.transactions)
                           /\ last.id \in IdsOf(file'.transactions)]_vars

\* two adds by two instances, one after the other: the first one's
\* transaction is in its own data and no longer in the file
C9_Witness ==
    /\ last.op = "add"
    /\ last.ret = "ok"
    /\ last.prev.op = "add"
    /\ last.prev.inst # last.inst
    /\ last.prev.id \in IdsOf(data[last.prev.inst].transactions)
    /\ last.prev.id \notin IdsOf(file.transactions)
    /\ FileData(file) = data[last.inst]

\* C10: when the instances have used the file one after another (every
\* mutation completed and was made by the instance constructed last), the
\* file holds every transaction appended and not removed by all instances,
\* in order, and its balance is their signed sum.
C10_SequentialNoLoss ==
    (seq.ok /\ \A i \in Instances : loaded[i])
        => /\ FileData(file).transactions = seq.ideal
           /\ FileData(file).balance \in SignedSums(seq.ideal)

\* the part of C10 about the transactions
C10_SequentialKeepsTransactions ==
    (seq.ok /\ seq.cur # "none")
        => FileData(file).transactions = seq.ideal

C12_UniqueStableIds ==
    [][\A i \in Instances :
          LET old == data[i].transactions
              new == data'[i].transactions
          IN  /\ \A j, k \in 1..Len(new) : new[j].id = new[k].id => j = k
              /\ (last'.op = "add" /\ last'.inst = i /\ last'.tx # <<>>)
                    => /\ last'.tx[1].id \notin 1..(nextId - 1)
                       /\ last'.tx[1].id \notin IdsOf(old)
                       /\ last'.tx[1].id \in IdsOf(new)
              /\ loaded[i] =>
                    \A j \in 1..Len(old), k \in 1..Len(new) :
                        new[k].id = old[j].id => new[k] = old[j]]_vars

\* a second add in a ledger that holds a transaction: two ids in all()
C12_Witness ==
    /\ last.op = "add"
    /\ last.ret = "ok"
    /\ Len(data[last.inst].transactions) = 2
    /\ last.pre.transactions # <<>>

----------------------------------------------------------------------------
(* C11..C20: the reports *)

\* C13: at query time now, summary(windowDays) counts exactly the
\* transactions with now - windowDays <= t <= now: count is their number,
\* totalIncome and totalExpense are the sums of the amounts of the counted
\* Income and Expense transactions; older and later transactions are excluded.
C13_SummaryCountsWindow ==
    \A days \in WindowDays :
        LET s == get_summary(ReportData, now, days)
            w == Window(get_transactions_df(ReportData), now, days)
        IN  /\ s.count = Len(w)
            /\ s.total_income \in AmountSums(OfType(w, INCOME.value))
            /\ s.total_expense \in AmountSums(OfType(w, EXPENSE.value))

\* what get_summary counts: every transaction with now - windowDays <= t,
\* those later than now included
C13_SummaryCountsSince ==
    \A days \in WindowDays :
        LET s == get_summary(ReportData, now, days)
            w == Period(get_transactions_df(ReportData), now, days)
        IN  /\ s.count = Len(w)
            /\ s.count = Cardinality({k \in 1..Len(ReportData.transactions) :
                    ParseTime(ReportData.transactions[k].date)
                        >= now - days * TicksPerDay})
            /\ s.total_income \in AmountSums(OfType(w, INCOME.value))
            /\ s.total_expense \in AmountSums(OfType(w, EXPENSE.value))

\* C14: for every ledger state and every windowDays, positive, zero or
\* negative, the summary satisfies netBalance = totalIncome - totalExpense.
C14_NetIsIncomeMinusExpense ==
    \A days \in WindowDays :
        LET s == get_summary(ReportData, now, days)
        IN  s.balance = FSub(s.total_income, s.total_expense)

\* an Income and an Expense lie in the window of one day, none in the window
\* of zero days, and the net balance of the day is not zero
C14_Witness ==
    LET s == get_summary(ReportData, now, 1)
    IN  /\ s.total_income > 0
        /\ s.total_expense > 0
        /\ s.balance # 0
        /\ get_summary(ReportData, now, 0).count = 0
        /\ get_summary(ReportData, now, -1).count = 0

\* C15: for every negative windowDays and every ledger state, summary
\* matches nothing: count, totalIncome, totalExpense and netBalance are 0.
C15_NegativeWindowMatchesNothing ==
    \A days \in WindowDays :
        days < 0 => get_summary(ReportData, now, days) = ZeroSummary

\* C16: on an empty ledger, for every windowDays and kind, summary returns
\* all zeros with count 0, and categoryBreakdown and dailyTrend return empty
\* sequences.
C16_EmptyLedgerReports ==
    ReportData.transactions = <<>> =>
        \A days \in WindowDays :
            LET s == get_summary(ReportData, now, days)
            IN  /\ s.count = 0
                /\ s.total_income = 0
                /\ s.total_expense = 0
                /\ s.balance = 0
                /\ \A ty \in TransactionType :
                      get_category_stats(ReportData, now, ty.value, days) = <<>>
                /\ get_daily_trend(ReportData, now, days) = <<>>

\* a ledger emptied by a delete, queried on a later day
C16_Witness ==
    /\ loaded[Reporter]
    /\ ReportData.transactions = <<>>
    /\ last.prev.op = "delete"
    /\ DateOf(now) > 0

\* C17: categoryBreakdown(kind, windowDays) has exactly one entry for each
\* category with a transaction of the kind inside the window and none for
\* any other category; the entry's amount is the sum of those transactions'
\* amounts, its count their number, its sharePercent amount / (sum of all
\* entries' amounts) * 100 rounded to 2 decimals.
C17_BreakdownOfWindow ==
    \A days \in WindowDays, ty \in TransactionType :
        IsBreakdownOf(get_category_stats(ReportData, now, ty.value, days),
                      OfType(Window(get_transactions_df(ReportData), now,
                                    days), ty.value))

\* what get_category_stats groups: the transactions of the kind with
\* now - windowDays <= t, those later than now included
C17_BreakdownSince ==
    \A days \in WindowDays, ty \in TransactionType :
        IsBreakdownOf(get_category_stats(ReportData, now, ty.value, days),
                      OfType(Period(get_transactions_df(ReportData), now,
                                    days), ty.value))

\* C18: the entries of categoryBreakdown are ordered by amount descending:
\* of two adjacent entries the earlier one's amount is >= the later one's.
C18_OrderedByAmount ==
    \A days \in WindowDays, ty \in TransactionType :
        LET b == get_category_stats(ReportData, now, ty.value, days)
        IN  \A k \in 1..(Len(b) - 1) : b[k].amount >= b[k + 1].amount

\* a breakdown of two categories of different amounts
C18_Witness ==
    \E days \in WindowDays :
        LET b == get_category_stats(ReportData, now, INCOME.value, days)
        IN  /\ Len(b) = 2
            /\ b[1].amount # b[2].amount

\* C19: for any non-empty categoryBreakdown, whatever the number of
\* categories, the sum of the sharePercent values lies within 0.1 of 100.0.
C19_SharesSumTo100 ==
    column # <<>> => ShareSumOff <= 10

\* C19 as it holds: every share is off by at most 0.005, so the sum lies
\* within 0.005 times the number of categories of 100.0, which is within
\* 0.1 for up to 20 categories.
C19_SharesSumWithinHalfCentEach ==
    column # <<>> =>
        /\ 2 * ShareSumOff <= Len(column)
        /\ Len(column) <= 20 => ShareSumOff <= 10

\* a breakdown of more than 20 categories whose shares sum to more than
\* 100.1
C19_Witness ==
    /\ Len(column) > 20
    /\ SumOf(SharePercents(column, ExactAmounts(column))) > 10010

\* C20: for the same ledger state, query time and windowDays, the amounts of
\* the entries of categoryBreakdown(Expense) sum to summary.totalExpense,
\* those of categoryBreakdown(Income) to summary.totalIncome, and the counts
\* of the entries of both kinds sum to summary.count.
C20_BreakdownMatchesSummary ==
    \A days \in WindowDays :
        LET s == get_summary(ReportData, now, days)
            bi == get_category_stats(ReportData, now, INCOME.value, days)
            be == get_category_stats(ReportData, now, EXPENSE.value, days)
        IN  /\ s.total_income \in AmountSums(bi)
            /\ s.total_expense \in AmountSums(be)
            /\ s.count = SumOf([k \in 1..Len(bi) |-> bi[k].count])
                         + SumOf([k \in 1..Len(be) |-> be[k].count])

\* the counts of the two breakdowns always sum to the count of the summary
C20_CountsMatch ==
    \A days \in WindowDays :
        LET s == get_summary(ReportData, now, days)
            bi == get_category_stats(ReportData, now, INCOME.value, days)
            be == get_category_stats(ReportData, now, EXPENSE.value, days)
        IN  s.count = SumOf([k \in 1..Len(bi) |-> bi[k].count])
                      + SumOf([k \in 1..Len(be) |-> be[k].count])

----------------------------------------------------------------------------
(* C21..C30 *)

\* C21: dailyTrend(windowDays) has exactly one row for each calendar date on
\* which a transaction inside the window falls and no other row; the row's
\* income and expense are the sums of that date's Income and Expense amounts
\* (0 for a kind without a transaction), net = income - expense, and the
\* rows are in strictly ascending date order.
C21_TrendOfWindow ==
    \A days \in WindowDays :
        IsTrendOf(get_daily_trend(ReportData, now, days),
                  Window(get_transactions_df(ReportData), now, days))

\* what get_daily_trend groups: the transactions with now - windowDays <= t,
\* those later than now included
C21_TrendSince ==
    \A days \in WindowDays :
        IsTrendOf(get_daily_trend(ReportData, now, days),
                  Period(get_transactions_df(ReportData), now, days))

\* C22: for every ledger state and every windowDays >= 1,
\* dailyTrend(windowDays) has at most windowDays rows.
C22_TrendAtMostWindowRows ==
    \A days \in WindowDays :
        days >= 1 => Len(get_daily_trend(ReportData, now, days)) <= days

\* a window of windowDays days reaches back to the same time of day
\* windowDays dates ago: without a transaction dated after now the trend has
\* at most windowDays + 1 rows
C22_TrendAtMostWindowPlusOne ==
    (\A k \in 1..Len(ReportData.transactions) :
        ParseTime(ReportData.transactions[k].date) <= now)
    => \A days \in WindowDays :
          days >= 0
             => Len(get_daily_trend(ReportData, now, days)) <= days + 1

\* C23: on a non-empty ledger whose transactions all fall outside the window
\* (for categoryBreakdown: none of the kind falls inside it),
\* categoryBreakdown and dailyTrend return an empty sequence and summary
\* returns zeros with count 0.
C23_NothingInWindow ==
    ReportData.transactions # <<>> =>
        \A days \in WindowDays :
            LET w == Window(get_transactions_df(ReportData), now, days)
                s == get_summary(ReportData, now, days)
            IN  /\ w = <<>> =>
                      /\ s.count = 0
                      /\ s.total_income = 0
                      /\ s.total_expense = 0
                      /\ s.balance = 0
                      /\ get_daily_trend(ReportData, now, days) = <<>>
                /\ \A ty \in TransactionType :
                      OfType(w, ty.value) = <<>> =>
                         get_category_stats(ReportData, now, ty.value, days)
                            = <<>>

\* the same with the period the code filters by: nothing with
\* now - windowDays <= t
C23_NothingSince ==
    ReportData.transactions # <<>> =>
        \A days \in WindowDays :
            LET w == Period(get_transactions_df(ReportData), now, days)
                s == get_summary(ReportData, now, days)
            IN  /\ w = <<>> =>
                      /\ s = ZeroSummary
                      /\ get_daily_trend(ReportData, now, days) = <<>>
                /\ \A ty \in TransactionType :
                      OfType(w, ty.value) = <<>> =>
                         get_category_stats(ReportData, now, ty.value, days)
                            = <<>>

C25_FileBalanceIsSignedSum ==
    file.status = "ok" => file.balance \in SignedSums(file.transactions)

\* C26: lost delete.  Instance B holds a transaction t that is no longer in
\* the durable state (B loaded it, another instance removed it and wrote).
\* Any successful append or remove of another transaction by B puts t back
\* into the durable state, which then is B's whole state, t's effect on the
\* balance included; an operation of B that fails (unknown id, non-positive
\* amount) writes nothing and does not bring t back.
C26_LostDelete ==
    [][\A b \in Instances :
          (/\ last'.op \in {"add", "delete"}
           /\ last'.inst = b
           /\ loaded[b])
          => \A k \in 1..Len(data[b].transactions) :
                LET t == data[b].transactions[k]
                IN  (t.id \notin IdsOf(file.transactions) /\ t.id # last'.id)
                    => /\ last'.ret \in {"ok", "True"}
                          => /\ file'.status = "ok"
                             /\ \E j \in 1..Len(file'.transactions) :
                                   file'.transactions[j] = t
                             /\ FileData(file') = data'[b]
                       /\ last'.ret \in {"False", "ValueError"}
                          => /\ file' = file
                             /\ last'.writes = 0
                             /\ data'[b] = data[b]]_vars

\* app1 has removed a transaction and written; app2, which had loaded it,
\* then appends, and the removed transaction is in the file again
C26_Witness ==
    /\ last.op = "add"
    /\ last.ret = "ok"
    /\ last.inst = "app2"
    /\ last.prev.op = "delete"
    /\ last.prev.inst = "app1"
    /\ last.prev.id \in IdsOf(file.transactions)

\* C27: an instance reads the durable state only once, at construction: its
\* all() and balance() are its load-time snapshot modified by its own
\* successful mutations, and never reflect a write of another instance.
C27_SnapshotPlusOwnSuccesses ==
    [][\A i \in Instances :
          (loaded[i] /\ data'[i] # data[i])
             => /\ last'.inst = i
                /\ last'.op \in {"add", "delete"}
                /\ last'.ret \in {"ok", "True"}]_vars

\* the part of C27 about other instances: no step of another instance, and
\* no step other than a mutation, changes a loaded instance's data, and the
\* file is read by the constructor only
C27_NoForeignChange ==
    [][\A i \in Instances :
          /\ (loaded[i] /\ data'[i] # data[i])
                => last'.inst = i /\ last'.op \in {"add", "delete"}
          /\ loaded[i] => loaded'[i]]_vars

\* C28: load does not validate or recompute the balance: if balance is the
\* signed sum of the transactions plus d, then after any append or remove on
\* the instance balance() is the signed sum of the present transactions plus
\* the same d.
C28_DiscrepancyKept ==
    [][\A i \in Instances :
          (loaded[i] /\ last'.inst = i /\ last'.op \in {"add", "delete"})
             => Discrepancies(data'[i])[1] = Discrepancies(data[i])[1]]_vars

\* C28 with the signed sum taken in float arithmetic, per kind
C28_DiscrepancyKeptPerKind ==
    [][\A i \in Instances :
          (loaded[i] /\ last'.inst = i /\ last'.op \in {"add", "delete"})
             => Discrepancies(data'[i])[2] = Discrepancies(data[i])[2]]_vars

\* C28 with the signed sum accumulated in float arithmetic in list order
C28_DiscrepancyKeptFold ==
    [][\A i \in Instances :
          (loaded[i] /\ last'.inst = i /\ last'.op \in {"add", "delete"})
             => Discrepancies(data'[i])[3] = Discrepancies(data[i])[3]]_vars

\* the ledger of the examined instance was built from empty by add and delete
BuiltFromEmpty ==
    /\ loaded[Reporter]
    /\ 0 \notin IdsOf(ReportData.transactions)

\* C29: on a ledger built from empty by append/remove, whenever windowDays
\* is large enough that every present transaction lies inside the window,
\* summary(windowDays).netBalance equals balance() and
\* summary(windowDays).count equals the length of all().
C29_FullWindowSummaryIsLedger ==
    BuiltFromEmpty =>
        \A days \in WindowDays :
            LET df == get_transactions_df(ReportData)
                s == get_summary(ReportData, now, days)
            IN  Len(Window(df, now, days)) = Len(df)
                => /\ s.balance = get_balance(ReportData)
                   /\ s.count = Len(get_all_transactions(ReportData))

\* the count part of C29
C29_FullWindowCount ==
    BuiltFromEmpty =>
        \A days \in WindowDays :
            LET df == get_transactions_df(ReportData)
            IN  Len(Window(df, now, days)) = Len(df)
                => get_summary(ReportData, now, days).count
                      = Len(get_all_transactions(ReportData))

\* the number of stored transactions of an id
CountOf(txs, id) == Cardinality({k \in 1..Len(txs) : txs[k].id = id})

\* the first place of an id in a list that holds it
FirstOf(txs, id) ==
    CHOOSE k \in 1..Len(txs) :
        txs[k].id = id /\ \A j \in 1..(k - 1) : txs[j].id # id

\* a delete of instance i, of an id that is stored more than once, removes
\* the first of them only, adjusts the balance by it, and returns true
RemovesFirstOnly(i) ==
    LET old == data[i].transactions
        new == data'[i].transactions
        k == FirstOf(old, last'.id)
    IN  /\ last'.ret = "True"
        /\ new = SubSeq(old, 1, k - 1) \o SubSeq(old, k + 1, Len(old))
        /\ CountOf(new, last'.id) = CountOf(old, last'.id) - 1
        /\ data'[i].balance =
              IF old[k].type = "INCOME"
              THEN FSub(data[i].balance, old[k].amount)
              ELSE FAdd(data[i].balance, old[k].amount)
        /\ FileData(file') = data'[i]

\* C30: when several stored transactions share an id, remove(id) removes
\* only the first of them in insertion order, adjusts the balance by that
\* one transaction only, and returns true; the later ones stay in the
\* ledger, so the balance invariant (balance = signed sum of the
\* transactions present) still holds.
C30_RemoveOfDuplicateId ==
    [][\A i \in Instances :
          (/\ last'.op = "delete"
           /\ last'.inst = i
           /\ loaded[i]
           /\ CountOf(data[i].transactions, last'.id) > 1)
          => /\ RemovesFirstOnly(i)
             /\ get_balance(data[i]) \in SignedSums(data[i].transactions)
                   => get_balance(data'[i])
                         \in SignedSums(data'[i].transactions)]_vars

\* C30 without its last clause
C30_RemoveOfDuplicateIdFirstOnly ==
    [][\A i \in Instances :
          (/\ last'.op = "delete"
           /\ last'.inst = i
           /\ loaded[i]
           /\ CountOf(data[i].transactions, last'.id) > 1)
          => RemovesFirstOnly(i)]_vars

\* an id was stored twice, with different amounts, and one of the two was
\* removed
C30_Reached ==
    /\ last.op = "delete"
    /\ last.ret = "True"
    /\ CountOf(data[last.inst].transactions, last.id) = 1

====
